---------------------------- MODULE Spec2Model ----------------------------
(***************************************************************************)
(* Runtime evaluation of SQLAlchemy expressions (src/expression.py).       *)
(*                                                                         *)
(* Expression.__init__ serializes an expression tree into a tuple of       *)
(* Symbols in reverse Polish notation; Expression.evaluate runs that tuple *)
(* on a Stack with substitute values for the columns.                      *)
(*                                                                         *)
(* Python values are tagged records (field k names the Python type).       *)
(* Expression tree nodes are records whose field t names the SQLAlchemy    *)
(* class.  The operator functions carried by Symbols are the functions of  *)
(* Python's operator module: sqlalchemy.sql.operators re-exports eq, ne,   *)
(* lt, ge, inv, neg, and_ and or_ from it (the source itself compares a    *)
(* UnaryExpression's operator with operator.inv).                          *)
(***************************************************************************)
EXTENDS Integers, Sequences, FiniteSets, TLC

(***************************************************************************)
(* Python values.                                                          *)
(***************************************************************************)
None_ == [k |-> "NoneType"]
IntVal(n) == [k |-> "int", n |-> n]
BoolVal(b) == [k |-> "bool", b |-> b]
StrVal(s) == [k |-> "str", s |-> s]
ListVal(items) == [k |-> "list", items |-> items]
\* An expression node carried as a value (the element of an AsBoolean that is
\* no Column): the node's own record, which has a field t and no field k.
IsClauseElement(v) == "t" \in DOMAIN v
\* A callable (operator function or lambda), compared by identity.
Function(name) == [k |-> "function", name |-> name]
\* The outcome of a call that raises.
Raise(error) == [k |-> "raise", error |-> error]

IsNumber(v) == v.k \in {"int", "bool"}
\* bool is a subclass of int: True is 1, False is 0.
Number(v) == IF v.k = "int" THEN v.n ELSE IF v.b THEN 1 ELSE 0

\* Lexicographic rank of the string literals used by the model.
StrRank(s) == CASE s = "active" -> 1 [] s = "pending" -> 2 [] OTHER -> 0

RECURSIVE PyEq(_, _)
\* a == b for data values: never raises.
PyEq(a, b) ==
    CASE IsNumber(a) /\ IsNumber(b) -> Number(a) = Number(b)
      [] a.k = "NoneType" /\ b.k = "NoneType" -> TRUE
      [] a.k = "str" /\ b.k = "str" -> a.s = b.s
      [] a.k = "list" /\ b.k = "list" ->
            /\ Len(a.items) = Len(b.items)
            /\ \A i \in 1..Len(a.items) : PyEq(a.items[i], b.items[i])
      [] OTHER -> FALSE

\* First index at which two lists differ, 0 when one is a prefix of the other.
FirstDifference(x, y) ==
    LET m == IF Len(x) < Len(y) THEN Len(x) ELSE Len(y)
        d == {i \in 1..m : ~PyEq(x[i], y[i])}
    IN IF d = {} THEN 0 ELSE CHOOSE i \in d : \A j \in d : i <= j

RECURSIVE PyLt(_, _)
\* operator.lt(a, b): ordering is defined within numbers, strings and lists.
PyLt(a, b) ==
    CASE IsNumber(a) /\ IsNumber(b) -> BoolVal(Number(a) < Number(b))
      [] a.k = "str" /\ b.k = "str" -> BoolVal(StrRank(a.s) < StrRank(b.s))
      [] a.k = "list" /\ b.k = "list" ->
            LET i == FirstDifference(a.items, b.items)
            IN IF i = 0 THEN BoolVal(Len(a.items) < Len(b.items))
               ELSE PyLt(a.items[i], b.items[i])
      [] OTHER -> Raise("TypeError")

RECURSIVE PyGe(_, _)
\* operator.ge(a, b)
PyGe(a, b) ==
    CASE IsNumber(a) /\ IsNumber(b) -> BoolVal(Number(a) >= Number(b))
      [] a.k = "str" /\ b.k = "str" -> BoolVal(StrRank(a.s) >= StrRank(b.s))
      [] a.k = "list" /\ b.k = "list" ->
            LET i == FirstDifference(a.items, b.items)
            IN IF i = 0 THEN BoolVal(Len(a.items) >= Len(b.items))
               ELSE PyGe(a.items[i], b.items[i])
      [] OTHER -> Raise("TypeError")

\* lambda left, right: left in right.  No string literal of the model is a
\* proper substring of another, so str containment is equality.
PyIn(left, right) ==
    CASE right.k = "list" ->
            BoolVal(\E i \in 1..Len(right.items) : PyEq(right.items[i], left))
      [] right.k = "str" /\ left.k = "str" -> BoolVal(left.s = right.s)
      [] OTHER -> Raise("TypeError")

\* bool(v) for data values.
Truthy(v) ==
    CASE v.k = "NoneType" -> FALSE
      [] v.k = "bool" -> v.b
      [] v.k = "int" -> v.n # 0
      [] v.k = "str" -> v.s # ""
      [] v.k = "list" -> Len(v.items) > 0
      [] OTHER -> TRUE

\* operator.not_(v); a BinaryExpression with a custom operator has no truth
\* value (its __bool__ raises TypeError).
PyNot(v) ==
    IF IsClauseElement(v) THEN Raise("TypeError") ELSE BoolVal(~Truthy(v))

\* operator.inv(v): ~v, defined on int (and so on bool).
PyInv(v) == IF IsNumber(v) THEN IntVal(-Number(v) - 1) ELSE Raise("TypeError")

\* operator.neg(v): -v
PyNeg(v) == IF IsNumber(v) THEN IntVal(-Number(v)) ELSE Raise("TypeError")

RECURSIVE BitAnd(_, _)
\* x & y on two's complement integers of unbounded width.
BitAnd(x, y) ==
    CASE x = 0 \/ y = 0 -> 0
      [] x = -1 -> y
      [] y = -1 -> x
      [] OTHER -> 2 * BitAnd(x \div 2, y \div 2) + (x % 2) * (y % 2)

RECURSIVE BitOr(_, _)
\* x | y on two's complement integers of unbounded width.
BitOr(x, y) ==
    CASE x = -1 \/ y = -1 -> -1
      [] x = 0 -> y
      [] y = 0 -> x
      [] OTHER -> 2 * BitOr(x \div 2, y \div 2)
                    + (IF x % 2 = 1 \/ y % 2 = 1 THEN 1 ELSE 0)

\* operator.and_(a, b): a & b
PyAnd(a, b) ==
    CASE a.k = "bool" /\ b.k = "bool" -> BoolVal(a.b /\ b.b)
      [] IsNumber(a) /\ IsNumber(b) -> IntVal(BitAnd(Number(a), Number(b)))
      [] OTHER -> Raise("TypeError")

\* operator.or_(a, b): a | b
PyOr(a, b) ==
    CASE a.k = "bool" /\ b.k = "bool" -> BoolVal(a.b \/ b.b)
      [] IsNumber(a) /\ IsNumber(b) -> IntVal(BitOr(Number(a), Number(b)))
      [] OTHER -> Raise("TypeError")

\* The number of positional arguments each function accepts.
Parameters(name) == IF name \in {"not_", "inv", "neg"} THEN 1 ELSE 2

\* value(*args): the call of a Symbol's function on the popped values.
Call(value, args) ==
    IF Len(args) # Parameters(value.name) THEN Raise("TypeError")
    ELSE CASE value.name = "eq" -> BoolVal(PyEq(args[1], args[2]))
           [] value.name = "ne" -> BoolVal(~PyEq(args[1], args[2]))
           [] value.name = "lt" -> PyLt(args[1], args[2])
           [] value.name = "ge" -> PyGe(args[1], args[2])
           [] value.name = "in" -> PyIn(args[1], args[2])
           [] value.name = "and_" -> PyAnd(args[1], args[2])
           [] value.name = "or_" -> PyOr(args[1], args[2])
           [] value.name = "not_" -> PyNot(args[1])
           [] value.name = "inv" -> PyInv(args[1])
           [] value.name = "neg" -> PyNeg(args[1])

(***************************************************************************)
(* Expression trees: one record shape per SQLAlchemy class the serializer  *)
(* tests for, and TextClause for a class it does not know.                 *)
(***************************************************************************)
BindParameter(value) == [t |-> "BindParameter", value |-> value]
\* Grouping.element is a clause list, given by its sequence of elements.
Grouping(element) == [t |-> "Grouping", element |-> element]
Null == [t |-> "Null"]
Column(name, type) == [t |-> "Column", name |-> name, type |-> type]
AsBoolean(element, operator) ==
    [t |-> "AsBoolean", element |-> element, operator |-> operator]
UnaryExpression(element, operator) ==
    [t |-> "UnaryExpression", element |-> element, operator |-> operator]
BooleanClauseList(operator, clauses) ==
    [t |-> "BooleanClauseList", operator |-> operator, clauses |-> clauses]
BinaryExpression(left, right, operator) ==
    [t |-> "BinaryExpression", left |-> left, right |-> right,
     operator |-> operator]
TextClause == [t |-> "TextClause"]

\* column.isnot(None) and column.is_(None), as the expression library builds them.
IsNotNone(column) == BinaryExpression(column, Null, "isnot")
IsNone(column) == BinaryExpression(column, Null, "is_")

OPERATOR_MAP ==
    [op \in {"in_op", "is_", "isnot", "istrue", "isfalse"} |->
        CASE op = "in_op" -> Function("in")
          [] op = "is_" -> Function("eq")
          [] op = "isnot" -> Function("ne")
          [] op = "istrue" -> None_
          [] op = "isfalse" -> Function("not_")]

(***************************************************************************)
(* Symbol: (type, arity, value).                                           *)
(***************************************************************************)
_determine_type(value) ==
    IF "t" \in DOMAIN value /\ value.t = "Column" THEN "column"
    ELSE IF "k" \in DOMAIN value /\ value.k = "function" THEN "operator"
    ELSE "literal"

Symbol(value, arity) ==
    [type |-> _determine_type(value), arity |-> arity, value |-> value]

(***************************************************************************)
(* Expression._serialize: a generator; tuple() either collects every       *)
(* Symbol it yields or propagates the first exception it raises.           *)
(***************************************************************************)
Yield(symbols) == [raised |-> FALSE, symbols |-> symbols]
Abort(error) == [raised |-> TRUE, error |-> error]
YieldFrom(first, rest) ==
    IF first.raised THEN first
    ELSE IF rest.raised THEN rest
    ELSE Yield(first.symbols \o rest.symbols)

UnsupportedOperator == "TypeError: Unsupported operator"
UnsupportedExpression == "TypeError: Unsupported expression"

SerializeGrouping(expr) ==
    IF \A i \in 1..Len(expr.element) : expr.element[i].t = "BindParameter"
    THEN Yield(<<Symbol(ListVal([i \in 1..Len(expr.element) |->
                                    expr.element[i].value]), None_)>>)
    ELSE Abort("AttributeError")

SerializeAsBoolean(expr) ==
    IF expr.operator \notin DOMAIN OPERATOR_MAP THEN Abort("KeyError")
    ELSE LET func == OPERATOR_MAP[expr.operator]
         IN Yield(<<Symbol(expr.element, None_)>>
                  \o (IF func # None_ THEN <<Symbol(func, IntVal(1))>>
                      ELSE <<>>))

\* force_bool and not isinstance(expr.type, Boolean)
ColumnNeedsCoercion(expr, force_bool) == force_bool /\ expr.type # "Boolean"

\* Mutant: an inverted column is serialized like any other unary expression.
UnaryNeverInvertedColumn(expr, force_bool) == FALSE

\* force_bool and expr.operator == operator.inv and target_is_column
UnaryIsInvertedColumn(expr, force_bool) ==
    force_bool /\ expr.operator = "inv" /\ expr.element.t = "Column"

UnarySymbol(expr) == Symbol(Function(expr.operator), IntVal(1))

\* Mutant: the arity counts one clause too many.
ClauseListSymbolOffByOne(expr) ==
    Symbol(Function(expr.operator), IntVal(Len(expr.clauses) + 1))

ClauseListSymbol(expr) ==
    Symbol(Function(expr.operator), IntVal(Len(expr.clauses)))

\* Mutant: the left operand's Symbols before the right operand's.
BinaryOperandsLeftFirst(right, left) == YieldFrom(left, right)

\* The operands of a BinaryExpression: right before left.
BinaryOperands(right, left) == YieldFrom(right, left)

\* OPERATOR_MAP.get(expr.operator, expr.operator)
BinarySymbol(expr) ==
    Symbol(IF expr.operator \in DOMAIN OPERATOR_MAP
           THEN OPERATOR_MAP[expr.operator]
           ELSE Function(expr.operator), IntVal(2))

RECURSIVE _serialize(_, _)
RECURSIVE SerializeClauses(_, _)

_serialize(expr, force_bool) ==
    CASE expr.t = "BindParameter" -> Yield(<<Symbol(expr.value, None_)>>)
      [] expr.t = "Grouping" -> SerializeGrouping(expr)
      [] expr.t = "Null" -> Yield(<<Symbol(None_, None_)>>)
      [] expr.t = "Column" ->
            IF ColumnNeedsCoercion(expr, force_bool)
            THEN _serialize(IsNotNone(expr), FALSE)
            ELSE Yield(<<Symbol(expr, None_)>>)
      [] expr.t = "AsBoolean" -> SerializeAsBoolean(expr)
      [] expr.t = "UnaryExpression" ->
            IF UnaryIsInvertedColumn(expr, force_bool)
            THEN _serialize(IsNone(expr.element), FALSE)
            ELSE YieldFrom(_serialize(expr.element, force_bool),
                           Yield(<<UnarySymbol(expr)>>))
      [] expr.t = "BooleanClauseList" ->
            YieldFrom(SerializeClauses(expr.clauses, force_bool),
                      Yield(<<ClauseListSymbol(expr)>>))
      [] expr.t = "BinaryExpression" ->
            IF expr.operator = "custom_op" THEN Abort(UnsupportedOperator)
            ELSE YieldFrom(BinaryOperands(_serialize(expr.right, FALSE),
                                          _serialize(expr.left, FALSE)),
                           Yield(<<BinarySymbol(expr)>>))
      [] OTHER -> Abort(UnsupportedExpression)

\* for clause in expr.clauses: yield from self._serialize(clause, ...)
SerializeClauses(clauses, force_bool) ==
    IF clauses = <<>> THEN Yield(<<>>)
    ELSE YieldFrom(_serialize(Head(clauses), force_bool),
                   SerializeClauses(Tail(clauses), force_bool))

(***************************************************************************)
(* rephrase_as_boolean.  A BooleanClauseList is changed in place and       *)
(* returned: the result is then the caller's own (changed) object.         *)
(***************************************************************************)
\* expr.operator is operator.inv and isinstance(expr.element, Column)
RephraseInvertsColumn(expr) ==
    expr.operator = "inv" /\ expr.element.t = "Column"

RECURSIVE rephrase_as_boolean(_)
rephrase_as_boolean(expr) ==
    CASE expr.t = "Column" /\ expr.type # "Boolean" -> IsNotNone(expr)
      [] expr.t = "UnaryExpression" ->
            IF RephraseInvertsColumn(expr) THEN IsNone(expr.element) ELSE expr
      [] expr.t = "BooleanClauseList" ->
            [expr EXCEPT !.clauses =
                [i \in 1..Len(expr.clauses) |->
                    rephrase_as_boolean(expr.clauses[i])]]
      [] OTHER -> expr

(***************************************************************************)
(* Stack: a deque, pushed and popped at its right end.                     *)
(***************************************************************************)
push(stack, frame) == Append(stack, frame)

\* Mutant: the popped values in the order they were pushed.
popnOldestFirst(stack, size) == SubSeq(stack, Len(stack) + 1 - size, Len(stack))

\* (self._stack.pop() for _ in range(size)): the most recently pushed first.
popn(stack, size) == [i \in 1..size |-> stack[Len(stack) + 1 - i]]

Remaining(stack, size) == SubSeq(stack, 1, Len(stack) - size)

(***************************************************************************)
(* One iteration of the loop of Expression.evaluate: the stack after the   *)
(* Symbol, or the exception the iteration raises.                          *)
(***************************************************************************)
Pushed(stack) == [raised |-> FALSE, stack |-> stack]

ExecuteLiteral(symbol, stack) == Pushed(push(stack, symbol.value))

\* Mutant: column_values.get(value), None for a column without a value.
ExecuteColumnWithDefault(symbol, stack, column_values) ==
    Pushed(push(stack, IF symbol.value \in DOMAIN column_values
                       THEN column_values[symbol.value] ELSE None_))

ExecuteColumn(symbol, stack, column_values) ==
    IF symbol.value \in DOMAIN column_values
    THEN Pushed(push(stack, column_values[symbol.value]))
    ELSE Abort("KeyError")

ExecuteOperator(symbol, stack) ==
    IF symbol.arity = None_ THEN Abort("TypeError")
    ELSE IF Len(stack) < symbol.arity.n THEN Abort("IndexError")
    ELSE LET returned == Call(symbol.value, popn(stack, symbol.arity.n))
         IN IF returned.k = "raise" THEN Abort(returned.error)
            ELSE Pushed(push(Remaining(stack, symbol.arity.n), returned))

Execute(symbol, stack, column_values) ==
    IF symbol.type = "literal" THEN ExecuteLiteral(symbol, stack)
    ELSE IF symbol.type = "column"
    THEN ExecuteColumn(symbol, stack, column_values)
    ELSE ExecuteOperator(symbol, stack)

\* Expression.columns
columns(serialized) ==
    {serialized[i].value : i \in {j \in 1..Len(serialized) :
                                    serialized[j].type = "column"}}

(***************************************************************************)
(* The expressions and column values the model is run on.                  *)
(***************************************************************************)
\* The largest number of clauses of the enumerated clause lists.
MaxClauses == 3
\* The number of evaluate() calls in progress at once in SpecConcurrent.
MaxEvaluations == 2
\* The number of evaluate() calls made one after the other in SpecRepeated.
MaxCalls == 2

age == Column("age", "Integer")
status == Column("status", "String")
flag == Column("flag", "Boolean")
Columns == {age, status, flag}

ColumnDomain(column) ==
    CASE column = age -> {None_, IntVal(16), IntVal(20)}
      [] column = status -> {None_, StrVal("active"), StrVal("pending")}
      [] column = flag -> {None_, BoolVal(TRUE), BoolVal(FALSE)}

Eighteen == BindParameter(IntVal(18))
Ages == Grouping(<<BindParameter(IntVal(16)), BindParameter(IntVal(20))>>)
Custom == BinaryExpression(age, Eighteen, "custom_op")
Adult == BinaryExpression(age, Eighteen, "ge")
Active == BinaryExpression(status, BindParameter(StrVal("active")), "eq")
Pending == BinaryExpression(status, BindParameter(StrVal("pending")), "eq")

Literals == {Eighteen, BindParameter(StrVal("active")), Null, Ages}

Binaries ==
    {BinaryExpression(l, r, op) :
        l \in Columns \cup {Eighteen},
        r \in Literals \cup {age},
        op \in {"eq", "lt", "ge", "in_op", "is_", "isnot", "custom_op"}}

NestedBinaries ==
    {BinaryExpression(l, r, op) :
        l \in {Adult, Custom, age}, r \in {Adult, Custom, Eighteen},
        op \in {"eq", "lt"}}

AsBooleans ==
    {AsBoolean(e, op) : e \in {flag, age, Custom}, op \in {"istrue", "isfalse"}}

Groupings == {Ages, Grouping(<<>>), Grouping(<<Eighteen, Custom>>),
              Grouping(<<Null>>)}

ClausePool == {age, flag, UnaryExpression(age, "inv"), Custom}

ClauseLists ==
    {BooleanClauseList(op, cs) :
        op \in {"and_", "or_"},
        cs \in UNION {[1..n -> ClausePool] : n \in 2..MaxClauses}}

Minor == BinaryExpression(age, Eighteen, "lt")

InnerLists ==
    {BooleanClauseList(op, <<c1, c2>>) :
        op \in {"and_", "or_"},
        c1 \in {age, Active, Minor, UnaryExpression(status, "inv")},
        c2 \in {status, Pending, UnaryExpression(age, "inv")}}

\* age >= 18 AND (status == "active" OR status == "pending")
Scenario ==
    BooleanClauseList("and_", <<Adult,
                                BooleanClauseList("or_", <<Active, Pending>>)>>)

NestedLists ==
    {BooleanClauseList(op, cs) :
        op \in {"and_", "or_"},
        cs \in {<<x, y>> : x \in InnerLists, y \in {Adult, flag, TextClause}}
               \cup {<<y, x>> : x \in InnerLists, y \in {Adult, flag}}}

Unaries ==
    {UnaryExpression(e, "inv") :
        e \in Columns \cup {Eighteen, Null, Adult, Active, Custom, TextClause,
                            AsBoolean(flag, "isfalse")}
              \cup InnerLists}
    \cup {UnaryExpression(e, "neg") : e \in {Eighteen, Null, Adult, flag}}

Expressions ==
    Columns \cup Literals \cup {BindParameter(None_), TextClause}
    \cup Binaries \cup NestedBinaries \cup AsBooleans \cup Groupings
    \cup ClauseLists \cup NestedLists \cup Unaries

\* Every dict giving each of some of the columns a value of its domain.
ColumnValues(cols) ==
    UNION {{f \in [keys -> UNION {ColumnDomain(c) : c \in keys}] :
                \A c \in keys : f[c] \in ColumnDomain(c)} : keys \in SUBSET cols}

(***************************************************************************)
(* State.                                                                  *)
(*   expression  the caller's expression object (changed in place by       *)
(*               rephrase_as_boolean when it is a clause list)             *)
(*   original    the expression as the caller built it (history)           *)
(*   force_bool  the constructor's flag                                    *)
(*   self        the Expression object: sql and serialized once built      *)
(*   frames      the evaluate() calls: column_values, the position in      *)
(*               self.serialized, the outcome                              *)
(*   stacks      the Stack instance of each evaluate() call                *)
(*   budget      the number of evaluate() calls each caller makes          *)
(***************************************************************************)
VARIABLES expression, original, force_bool, self, frames, stacks, budget

vars == <<expression, original, force_bool, self, frames, stacks, budget>>

\* A caller that has not called evaluate yet.  previous is how the caller's
\* call before the current one ended, calls the number of calls made.
Idle == [state |-> "idle", column_values |-> <<>>, position |-> 0,
         outcome |-> None_, previous |-> "idle", calls |-> 0]

\* Mutant: one Stack instance shared by every call of evaluate.
SharedStackInstance(e) == 1

\* stack = Stack(): every call of evaluate makes its own instance.
StackInstance(e) == e

InitWith(expressions, evaluations, calls) ==
    /\ expression \in expressions
    /\ original = expression
    /\ force_bool \in BOOLEAN
    /\ self = [state |-> "new"]
    /\ frames = [e \in evaluations |-> Idle]
    /\ stacks = [e \in evaluations |-> <<>>]
    /\ budget = calls

Init == InitWith(Expressions, {1}, 1)

\* Expression.__init__
Construct ==
    /\ self.state = "new"
    /\ LET rewritten == IF force_bool THEN rephrase_as_boolean(expression)
                        ELSE expression
           \* expr.clauses = list(map(...)) assigns to the caller's object
           changed == IF force_bool /\ expression.t = "BooleanClauseList"
                      THEN rewritten ELSE expression
           generated == _serialize(changed, force_bool)
       IN /\ expression' = changed
          /\ self' = IF generated.raised
                     THEN [state |-> "raised", error |-> generated.error]
                     ELSE [state |-> "constructed", sql |-> rewritten,
                           serialized |-> generated.symbols]
    /\ UNCHANGED <<original, force_bool, frames, stacks, budget>>

\* evaluate(column_values) is entered: stack = Stack()
EvaluateCall(e) ==
    /\ self.state = "constructed"
    /\ frames[e].state # "running"
    /\ frames[e].calls < budget
    /\ \E column_values \in ColumnValues(columns(self.serialized)) :
          frames' = [frames EXCEPT ![e] =
                        [state |-> "running", column_values |-> column_values,
                         position |-> 1, outcome |-> None_,
                         previous |-> IF frames[e].state = "raised"
                                      THEN frames[e].outcome.error
                                      ELSE frames[e].state,
                         calls |-> frames[e].calls + 1]]
    /\ stacks' = [stacks EXCEPT ![StackInstance(e)] = <<>>]
    /\ UNCHANGED <<expression, original, force_bool, self, budget>>

\* The loop's current Symbol.
Current(e) == self.serialized[frames[e].position]

AtSymbol(e, type) ==
    /\ self.state = "constructed"
    /\ frames[e].state = "running"
    /\ frames[e].position <= Len(self.serialized)
    /\ Current(e).type = type

\* The loop goes on with the next Symbol, or the exception leaves evaluate.
Continue(e, executed) ==
    /\ frames' = [frames EXCEPT ![e] =
                    IF executed.raised
                    THEN [@ EXCEPT !.state = "raised",
                                   !.outcome = Raise(executed.error)]
                    ELSE [@ EXCEPT !.position = @ + 1]]
    /\ stacks' = [stacks EXCEPT ![StackInstance(e)] =
                    IF executed.raised THEN <<>> ELSE executed.stack]
    /\ UNCHANGED <<expression, original, force_bool, self, budget>>

\* if itype is SymbolType.literal: stack.push(value)
PushLiteral(e) ==
    /\ AtSymbol(e, "literal")
    /\ Continue(e, ExecuteLiteral(Current(e), stacks[StackInstance(e)]))

\* elif itype is SymbolType.column: stack.push(column_values[value])
PushColumn(e) ==
    /\ AtSymbol(e, "column")
    /\ Continue(e, ExecuteColumn(Current(e), stacks[StackInstance(e)],
                                 frames[e].column_values))

\* else: stack.push(value(*stack.popn(arity)))
ApplyOperator(e) ==
    /\ AtSymbol(e, "operator")
    /\ Continue(e, ExecuteOperator(Current(e), stacks[StackInstance(e)]))

\* return stack.pop()
Return(e) ==
    /\ self.state = "constructed"
    /\ frames[e].state = "running"
    /\ frames[e].position = Len(self.serialized) + 1
    /\ LET stack == stacks[StackInstance(e)]
       IN /\ frames' = [frames EXCEPT ![e] =
                          IF stack = <<>>
                          THEN [@ EXCEPT !.state = "raised",
                                         !.outcome = Raise("IndexError")]
                          ELSE [@ EXCEPT !.state = "returned",
                                         !.outcome = stack[Len(stack)]]]
          /\ stacks' = [stacks EXCEPT ![StackInstance(e)] =
                          IF stack = <<>> THEN <<>> ELSE Remaining(stack, 1)]
    /\ UNCHANGED <<expression, original, force_bool, self, budget>>

Next ==
    \/ Construct
    \/ \E e \in DOMAIN frames : EvaluateCall(e)
    \/ \E e \in DOMAIN frames : PushLiteral(e)
    \/ \E e \in DOMAIN frames : PushColumn(e)
    \/ \E e \in DOMAIN frames : ApplyOperator(e)
    \/ \E e \in DOMAIN frames : Return(e)

Spec == Init /\ [][Next]_vars

\* One caller evaluating the compiled expression several times in a row.
RepeatedExpressions ==
    Columns \cup InnerLists
    \cup {b \in Binaries : b.operator \in {"lt", "in_op", "isnot"}}
    \cup {Adult, Minor, Scenario, UnaryExpression(age, "inv"),
          BinaryExpression(age, Ages, "in_op"),
          BinaryExpression(flag, Null, "isnot"),
          BooleanClauseList("and_", <<Minor, flag, age>>)}

InitRepeated == InitWith(RepeatedExpressions, {1}, MaxCalls)

SpecRepeated == InitRepeated /\ [][Next]_vars

\* Several callers evaluating the same compiled expression at once.
ConcurrentExpressions ==
    {Adult, BinaryExpression(age, Ages, "in_op"),
     BooleanClauseList("or_", <<Adult, UnaryExpression(age, "inv")>>),
     AsBoolean(flag, "isfalse"), status}

InitConcurrent == InitWith(ConcurrentExpressions, 1..MaxEvaluations, 1)

SpecConcurrent == InitConcurrent /\ [][Next]_vars

\* evaluate(column_values) run on its own: the value returned or the exception.
RECURSIVE RunFrom(_, _, _, _)
RunFrom(serialized, position, stack, column_values) ==
    IF position > Len(serialized)
    THEN IF stack = <<>> THEN Raise("IndexError") ELSE stack[Len(stack)]
    ELSE LET executed == Execute(serialized[position], stack, column_values)
         IN IF executed.raised THEN Raise(executed.error)
            ELSE RunFrom(serialized, position + 1, executed.stack,
                         column_values)

evaluate(serialized, column_values) == RunFrom(serialized, 1, <<>>, column_values)

(***************************************************************************)
(* Definitions used to state the properties.                               *)
(***************************************************************************)
Finished(e) == frames[e].state \in {"returned", "raised"}
Running(e) == self.state = "constructed" /\ frames[e].state = "running"

\* The mapping of a call gives a value to every column of the sequence.
Covers(e) == columns(self.serialized) \subseteq DOMAIN frames[e].column_values

RECURSIVE Supported(_)
\* Built only from the node shapes the serializer is specified for: an
\* as-boolean wrapper wraps a column, a group wraps bound values, no binary
\* operator is a custom one.
Supported(expr) ==
    CASE expr.t \in {"BindParameter", "Null", "Column"} -> TRUE
      [] expr.t = "Grouping" ->
            \A i \in 1..Len(expr.element) : expr.element[i].t = "BindParameter"
      [] expr.t = "AsBoolean" -> expr.element.t = "Column"
      [] expr.t = "UnaryExpression" -> Supported(expr.element)
      [] expr.t = "BooleanClauseList" ->
            \A i \in 1..Len(expr.clauses) : Supported(expr.clauses[i])
      [] expr.t = "BinaryExpression" ->
            /\ expr.operator # "custom_op"
            /\ Supported(expr.left)
            /\ Supported(expr.right)
      [] OTHER -> FALSE

\* The function an operator of the expression language stands for.
Meaning(operator) ==
    CASE operator = "in_op" -> Function("in")
      [] operator = "is_" -> Function("eq")
      [] operator = "isnot" -> Function("ne")
      [] operator = "isfalse" -> Function("not_")
      [] OTHER -> Function(operator)

Apply(operator, values) ==
    IF \E i \in 1..Len(values) : values[i].k = "raise"
    THEN Raise("TypeError")
    ELSE Call(Meaning(operator), values)

RECURSIVE Direct(_, _)
\* The value of a supported tree by recursion over the tree: each operator
\* applied to the values of its operands, taken in the order of the tree.
Direct(expr, column_values) ==
    CASE expr.t = "BindParameter" -> expr.value
      [] expr.t = "Null" -> None_
      [] expr.t = "Grouping" ->
            ListVal([i \in 1..Len(expr.element) |-> expr.element[i].value])
      [] expr.t = "Column" -> column_values[expr]
      [] expr.t = "AsBoolean" ->
            IF expr.operator = "istrue"
            THEN Direct(expr.element, column_values)
            ELSE Apply(expr.operator, <<Direct(expr.element, column_values)>>)
      [] expr.t = "UnaryExpression" ->
            Apply(expr.operator, <<Direct(expr.element, column_values)>>)
      [] expr.t = "BooleanClauseList" ->
            Apply(expr.operator,
                  [i \in 1..Len(expr.clauses) |->
                      Direct(expr.clauses[i], column_values)])
      [] expr.t = "BinaryExpression" ->
            Apply(expr.operator, <<Direct(expr.left, column_values),
                                   Direct(expr.right, column_values)>>)

\* {age: 20, status: "pending"} and {age: 16, status: "active"}
ScenarioAccepted ==
    [c \in {age, status} |-> IF c = age THEN IntVal(20) ELSE StrVal("pending")]
ScenarioRejected ==
    [c \in {age, status} |-> IF c = age THEN IntVal(16) ELSE StrVal("active")]

Size(expr, force) == Len(_serialize(expr, force).symbols)

RECURSIVE Sites(_, _, _)
RECURSIVE ClauseSites(_, _, _)
\* The nodes of a tree that _serialize is called on, each with the flag it
\* is called with and the index in the sequence of the last Symbol it
\* yields, for a tree whose first Symbol lands after `before` others.
Sites(expr, force, before) ==
    LET me == {[node |-> expr, force |-> force,
                last |-> before + Size(expr, force)]}
    IN CASE expr.t = "UnaryExpression"
                /\ ~UnaryIsInvertedColumn(expr, force) ->
                me \cup Sites(expr.element, force, before)
         [] expr.t = "BooleanClauseList" ->
                me \cup ClauseSites(expr.clauses, force, before)
         [] expr.t = "BinaryExpression" ->
                me \cup Sites(expr.right, FALSE, before)
                   \cup Sites(expr.left, FALSE,
                              before + Size(expr.right, FALSE))
         [] OTHER -> me

ClauseSites(clauses, force, before) ==
    IF clauses = <<>> THEN {}
    ELSE Sites(Head(clauses), force, before)
         \cup ClauseSites(Tail(clauses), force,
                          before + Size(Head(clauses), force))

\* The sites of the constructor's argument.
Compiled == Sites(original, force_bool, 0)

\* Call e is about to run the last Symbol of site s / has just run it.
Before(e, s) == Running(e) /\ frames[e].position = s.last
After(e, s) == Running(e) /\ frames[e].position = s.last + 1

Top(e) == stacks[e][Len(stacks[e])]

\* C2: when the operator Symbol of a binary expression l op r is about to
\* be run, the values it will be called with are (value of l, value of r),
\* in that order, and once run the result on the stack is op(l, r); wherever
\* the binary expression is nested.
C2_LeftOperandFirst ==
    \A e \in DOMAIN frames : Running(e) =>
        \A s \in Compiled :
            (s.node.t = "BinaryExpression" /\ Supported(s.node)) =>
                /\ Before(e, s) =>
                      /\ Len(stacks[e]) >= 2
                      /\ popn(stacks[e], 2)
                            = <<Direct(s.node.left, frames[e].column_values),
                                Direct(s.node.right, frames[e].column_values)>>
                /\ After(e, s) =>
                      Top(e) = Direct(s.node, frames[e].column_values)

\* An ordering comparison nested in a clause list below a negation has just
\* been applied to 16 and 18, in that order.
C2_Witness ==
    /\ self.state = "constructed"
    /\ original.t = "UnaryExpression"
    /\ original.element.t = "BooleanClauseList"
    /\ \E e \in DOMAIN frames : \E s \in Compiled :
          /\ s.node = Minor
          /\ After(e, s)
          /\ frames[e].column_values[age] = IntVal(16)
          /\ Top(e) = BoolVal(TRUE)

IsPlainColumn(expr) == expr.t = "Column" /\ expr.type # "Boolean"
IsInvertedPlainColumn(expr) ==
    /\ expr.t = "UnaryExpression"
    /\ expr.operator = "inv"
    /\ IsPlainColumn(expr.element)

\* C3: with force_bool, once the Symbols of a bare non-boolean column c have
\* run the value on the stack is true exactly when c's value is not None,
\* and once those of NOT c have run it is true exactly when c's value is
\* None; at the root (where it is the value returned) and for a child of a
\* clause list at any depth.
C3_ForcedColumnIsNullTest ==
    force_bool =>
        \A e \in DOMAIN frames :
            /\ Running(e) =>
                 \A s \in Compiled :
                    (s.force /\ After(e, s)) =>
                        /\ IsPlainColumn(s.node) =>
                              Top(e) = BoolVal(frames[e].column_values[s.node]
                                                  # None_)
                        /\ IsInvertedPlainColumn(s.node) =>
                              Top(e) = BoolVal(
                                  frames[e].column_values[s.node.element]
                                     = None_)
            /\ (Finished(e) /\ Covers(e)) =>
                  /\ IsPlainColumn(original) =>
                        frames[e].outcome
                           = BoolVal(frames[e].column_values[original] # None_)
                  /\ IsInvertedPlainColumn(original) =>
                        frames[e].outcome
                           = BoolVal(frames[e].column_values[original.element]
                                        = None_)

\* NOT status, the first clause of a list that is itself a clause of the
\* root list, has just been evaluated to false for a status that is set.
C3_Witness ==
    /\ force_bool
    /\ self.state = "constructed"
    /\ original.t = "BooleanClauseList"
    /\ original.clauses[1].t = "BooleanClauseList"
    /\ \E e \in DOMAIN frames : \E s \in Compiled :
          /\ s.node = UnaryExpression(status, "inv")
          /\ After(e, s)
          /\ frames[e].column_values[status] = StrVal("active")
          /\ Top(e) = BoolVal(FALSE)

RECURSIVE ContainsCustom(_)
\* A binary expression with a custom operator occurs somewhere in the tree.
ContainsCustom(expr) ==
    CASE expr.t = "Grouping" ->
            \E i \in 1..Len(expr.element) : ContainsCustom(expr.element[i])
      [] expr.t \in {"AsBoolean", "UnaryExpression"} ->
            ContainsCustom(expr.element)
      [] expr.t = "BooleanClauseList" ->
            \E i \in 1..Len(expr.clauses) : ContainsCustom(expr.clauses[i])
      [] expr.t = "BinaryExpression" ->
            \/ expr.operator = "custom_op"
            \/ ContainsCustom(expr.left)
            \/ ContainsCustom(expr.right)
      [] OTHER -> FALSE

\* C4: the constructor of an expression that contains a custom binary
\* operator anywhere, also as the element of an as-boolean node or inside a
\* group, raises the unsupported-operator error.
C4_CustomOperatorAlwaysRejected ==
    (ContainsCustom(original) /\ self.state # "new") =>
        /\ self.state = "raised"
        /\ self.error = UnsupportedOperator

\* The instructions of site s: those of its children and its own.
Segment(s) ==
    SubSeq(self.serialized, s.last + 1 - Size(s.node, s.force), s.last)

\* Every clause of the list has a boolean value.
BooleanClauses(node, column_values) ==
    \A i \in 1..Len(node.clauses) :
        Direct(node.clauses[i], column_values).k = "bool"

\* C6: a clause list of N clauses serializes to the Symbols of its clauses,
\* in order, followed by one operator Symbol of arity N; when the evaluator
\* reaches that Symbol it pops N values, the most recently pushed first, and
\* pushes one result (stated for clauses that all have boolean values).
C6_ClauseListPushesOneResult ==
    self.state = "constructed" =>
        \A s \in {x \in Compiled : x.node.t = "BooleanClauseList"} :
            /\ Segment(s)
                  = SerializeClauses(s.node.clauses, s.force).symbols
                      \o <<Symbol(Function(s.node.operator),
                                  IntVal(Len(s.node.clauses)))>>
            /\ \A e \in DOMAIN frames :
                  /\ Before(e, s) => Len(stacks[e]) >= Len(s.node.clauses)
                  /\ (/\ ~force_bool
                      /\ Supported(s.node)
                      /\ frames[e].position = s.last
                      /\ BooleanClauses(s.node, frames[e].column_values))
                        => frames[e].state # "raised"

\* C8: for every tree that compiles, with or without force_bool, no
\* evaluation pops from an empty stack: each operator Symbol finds at least
\* arity values on the stack, and after the last Symbol the stack holds
\* exactly one value, which is the one returned.
C8_StackNeverUnderflows ==
    self.state = "constructed" =>
        \A e \in DOMAIN frames :
            /\ Running(e) =>
                  IF frames[e].position <= Len(self.serialized)
                  THEN Current(e).type = "operator" =>
                          /\ Current(e).arity # None_
                          /\ Len(stacks[e]) >= Current(e).arity.n
                  ELSE Len(stacks[e]) = 1
            /\ frames[e].state = "raised" =>
                  frames[e].outcome # Raise("IndexError")
            /\ frames[e].state = "returned" => stacks[e] = <<>>

\* An evaluation of a forced clause list stands after the last Symbol with
\* one value on its stack.
C8_Witness ==
    /\ force_bool
    /\ self.state = "constructed"
    /\ original.t = "BooleanClauseList"
    /\ \E e \in DOMAIN frames :
          /\ Running(e)
          /\ frames[e].position = Len(self.serialized) + 1
          /\ Len(self.serialized) >= 7
          /\ Len(stacks[e]) = 1

\* C9: rephrase_as_boolean turns NOT x into x IS NULL only when x is a bare
\* column whose type is not Boolean, and returns every other negation,
\* that of a Boolean column included, unchanged.
C9_OnlyPlainColumnNegationRewritten ==
    (/\ force_bool
     /\ self.state = "constructed"
     /\ original.t = "UnaryExpression"
     /\ original.operator = "inv") =>
        self.sql = IF IsPlainColumn(original.element)
                   THEN IsNone(original.element)
                   ELSE original

\* C10: with force_bool the tree stored on sql and the sequence stored on
\* serialized agree: serialized is what the rewritten tree serializes to
\* without force_bool.
C10_SqlSerializesToSerialized ==
    (force_bool /\ self.state = "constructed") =>
        /\ ~_serialize(self.sql, FALSE).raised
        /\ self.serialized = _serialize(self.sql, FALSE).symbols

\* The columns of the sequence the mapping of call e has no value for.
Missing(e) == columns(self.serialized) \ DOMAIN frames[e].column_values

\* The index of the first column Symbol whose column has no value.
FirstMissing(e) ==
    LET at == {i \in 1..Len(self.serialized) :
                  /\ self.serialized[i].type = "column"
                  /\ self.serialized[i].value \in Missing(e)}
    IN CHOOSE i \in at : \A j \in at : i <= j

\* The compiled sequence is the one the constructor produced.
SerializedUnchanged ==
    self.state = "constructed" =>
        self.serialized = _serialize(expression, force_bool).symbols

\* C5 as stated: an evaluation with a mapping that lacks a referenced
\* column always ends in KeyError, one with a complete mapping never does.
C5_MissingColumnAlwaysKeyError ==
    \A e \in DOMAIN frames :
        Finished(e) =>
            IF Covers(e) THEN frames[e].outcome # Raise("KeyError")
            ELSE frames[e].outcome = Raise("KeyError")

\* C5 as amended: an evaluation with a mapping that lacks a referenced
\* column never returns a value; it raises KeyError at the first Symbol of a
\* missing column unless an operator Symbol before it raises first.  With a
\* complete mapping no KeyError is raised.  The sequence is left as built,
\* and a call that follows a failed one ends as it would on its own.
C5_MissingColumnFails ==
    /\ SerializedUnchanged
    /\ \A e \in DOMAIN frames :
          Finished(e) =>
             /\ Covers(e) => frames[e].outcome # Raise("KeyError")
             /\ ~Covers(e) =>
                   /\ frames[e].state = "raised"
                   /\ frames[e].position <= FirstMissing(e)
                   /\ frames[e].position = FirstMissing(e)
                         <=> frames[e].outcome = Raise("KeyError")
                   /\ frames[e].position < FirstMissing(e) =>
                         Current(e).type = "operator"
             /\ frames[e].previous = "KeyError" =>
                   frames[e].outcome
                      = evaluate(self.serialized, frames[e].column_values)

\* A call with a complete mapping has returned after the caller's previous
\* call failed on a missing column.
C5_Witness ==
    \E e \in DOMAIN frames :
        /\ frames[e].previous = "KeyError"
        /\ frames[e].state = "returned"
        /\ Covers(e)
        /\ frames[e].column_values # <<>>

\* The stack of an evaluation run on its own, before the Symbol at position.
RECURSIVE StackAt(_, _, _)
StackAt(serialized, position, column_values) ==
    IF position = 1 THEN <<>>
    ELSE Execute(serialized[position - 1],
                 StackAt(serialized, position - 1, column_values),
                 column_values).stack

\* C7: evaluations of one compiled expression, each with its own stack and
\* mapping, interleaved Symbol by Symbol: each has at every step the stack it
\* would have on its own and ends as it would on its own, and the sequence
\* stays the one the constructor built.
C7_InterleavedAsAlone ==
    /\ SerializedUnchanged
    /\ \A e \in DOMAIN frames :
          /\ Running(e) =>
                stacks[e] = StackAt(self.serialized, frames[e].position,
                                    frames[e].column_values)
          /\ Finished(e) =>
                frames[e].outcome
                   = evaluate(self.serialized, frames[e].column_values)

\* Two evaluations with different mappings are both part-way through the
\* sequence, with different stacks.
C7_Witness ==
    \E e1, e2 \in DOMAIN frames :
        /\ Running(e1) /\ Running(e2)
        /\ frames[e1].position > 2 /\ frames[e2].position > 1
        /\ frames[e1].position # frames[e2].position
        /\ frames[e1].column_values # frames[e2].column_values
        /\ stacks[e1] # <<>> /\ stacks[e2] # <<>>

=============================================================================
